---- MODULE Spec2Model ----
(***************************************************************************)
(* A model of the haz crate (src/src/lib.rs) and of its example client     *)
(* (src/examples/env.rs).                                                  *)
(*                                                                         *)
(* The crate is a capability trait Has<Component>, a free function         *)
(* access_from, a proxy Accessor<Component> built by access(), and the     *)
(* macro impl_has_for_named_component!.  The model keeps                   *)
(*   - the impl blocks as token sequences, the macro as the substitution   *)
(*     of its three arguments into its template, and the elaboration of an *)
(*     impl block into a declaration (container, component, field);        *)
(*   - memory as a map from field addresses to values; a reference is an   *)
(*     address, so that identity, aliasing and liveness can be stated;     *)
(*   - client threads that call the three accessor forms, hold the         *)
(*     returned reference and release it; and the owner of a container     *)
(*     that assigns to a field while nobody borrows the container.         *)
(***************************************************************************)
EXTENDS Integers, Sequences, FiniteSets, TLC

VARIABLES mem, calls, proxy, writes

vars == <<mem, calls, proxy, writes>>

(***************************************************************************)
(* Bounds                                                                  *)
(***************************************************************************)
\* number of field assignments the owner performs in one behaviour
MaxWrites == 2

\* client threads
Threads == {"t1", "t2"}

(***************************************************************************)
(* Types of the client programs                                            *)
(***************************************************************************)
\* struct Env (examples/env.rs)
EnvStruct ==
    [host |-> "Host", port |-> "Port", verbosity |-> "Verbosity",
     restriction |-> "Restriction"]

\* struct Config (doc example of lib.rs)
ConfigStruct ==
    [host |-> "Host", port |-> "Port", abort_on_error |-> "bool", debug |-> "bool"]

\* A container type given to the macro that stores the component type twice:
\* struct Link { local: Port, remote: Port }
LinkStruct ==
    [local |-> "Port", remote |-> "Port"]

ContainerTypes == {"Env", "Config", "Link"}

Struct(ct) ==
    CASE ct = "Env" -> EnvStruct
      [] ct = "Config" -> ConfigStruct
      [] ct = "Link" -> LinkStruct

ComponentTypes == {"Host", "Port", "Verbosity", "Restriction", "bool"}

\* values of each component type
Vals(comp) ==
    CASE comp = "Host" -> {"localhost", "example.org"}
      [] comp = "Port" -> {8080, 9090}
      [] comp = "Verbosity" -> {"Low", "High"}
      [] comp = "Restriction" -> {"Permissive", "Enforcing"}
      [] comp = "bool" -> {FALSE, TRUE}

\* container values of the model and their types
Instances == {"env", "cfg", "link"}

TypeOf(obj) ==
    CASE obj = "env" -> "Env"
      [] obj = "cfg" -> "Config"
      [] obj = "link" -> "Link"

FieldsOf(obj) == DOMAIN Struct(TypeOf(obj))

\* &self.field: the address of a field of a container value
FieldAddr(self, field) == [obj |-> self, field |-> field]

Addr == UNION {{FieldAddr(o, f) : f \in FieldsOf(o)} : o \in Instances}

TypeAt(a) == Struct(TypeOf(a.obj))[a.field]

NoRef == [obj |-> "none", field |-> "none"]

\* main: let env = Env { host: Host("localhost"), port: Port(8080),
\*                       verbosity: High, restriction: Enforcing }
EnvInit ==
    [host |-> "localhost", port |-> 8080, verbosity |-> "High",
     restriction |-> "Enforcing"]

ConfigInit ==
    [host |-> "localhost", port |-> 8080, abort_on_error |-> FALSE, debug |-> FALSE]

LinkInit ==
    [local |-> 8080, remote |-> 9090]

InitOf(obj) ==
    CASE obj = "env" -> EnvInit
      [] obj = "cfg" -> ConfigInit
      [] obj = "link" -> LinkInit

(***************************************************************************)
(* The impl blocks of the client programs, as token sequences              *)
(***************************************************************************)
\* impl Has<Host> for Env { fn access(&self) -> &Host { &self.host } }
EnvHasHost ==
    <<"impl", "Has", "Host", "for", "Env",
      "fn", "access", "&self", "->", "&", "Host", "&", "self", ".", "host">>

\* impl Has<Host> for Config { fn access(&self) -> &Host { &self.host } }
ConfigHasHost ==
    <<"impl", "Has", "Host", "for", "Config",
      "fn", "access", "&self", "->", "&", "Host", "&", "self", ".", "host">>

\* impl Has<Port> for Config { fn access(&self) -> &Port { &self.port } }
ConfigHasPort ==
    <<"impl", "Has", "Port", "for", "Config",
      "fn", "access", "&self", "->", "&", "Port", "&", "self", ".", "port">>

\* Variant: the body names $component_type where $component_name belongs.
impl_has_for_named_component_type_as_field(container_type, component_type, component_name) ==
    <<"impl", "haz::Has", component_type, "for", container_type,
      "fn", "access", "&self", "->", "&", component_type,
      "&", "self", ".", component_type>>

\* macro_rules! impl_has_for_named_component: the template with the three
\* arguments substituted
impl_has_for_named_component(container_type, component_type, component_name) ==
    <<"impl", "haz::Has", component_type, "for", container_type,
      "fn", "access", "&self", "->", "&", component_type,
      "&", "self", ".", component_name>>

\* the impl blocks of the three container types
ImplBlocks ==
    { EnvHasHost,
      impl_has_for_named_component("Env", "Port", "port"),
      impl_has_for_named_component("Env", "Verbosity", "verbosity"),
      ConfigHasHost,
      ConfigHasPort,
      impl_has_for_named_component("Link", "Port", "local") }

\* name resolution of the trait path: `Has` is in scope through
\* `use haz::{.., Has}`, the macro spells the path out
ResolvePath(path) ==
    CASE path = "Has" -> "haz::Has"
      [] path = "haz::Has" -> "haz::Has"
      [] OTHER -> path

\* an impl block read as a declaration of the capability relation
Elaborate(block) ==
    [trait |-> ResolvePath(block[2]),
     component |-> block[3],
     container |-> block[5],
     returns |-> block[11],
     field |-> block[15]]

Impls == {Elaborate(b) : b \in ImplBlocks}

\* the impls of Has<comp> for the container type ct
ImplsFor(ct, comp) ==
    {d \in Impls : d.trait = "haz::Has" /\ d.container = ct /\ d.component = comp}

\* Variant: no trait bound on the container.
HasBound_unchecked(ct, comp) == TRUE

\* the trait bound `Container: Has<Component>` of access_from and Accessor::from,
\* and of a method call c.access() with the component type annotated
HasBound(ct, comp) == ImplsFor(ct, comp) # {}

(***************************************************************************)
(* The library.  A call returns its result and the memory it leaves.       *)
(***************************************************************************)
\* Variant: access returns a reference to a copy of the component.
Has_access_copy(m, self, comp) ==
    LET ds == ImplsFor(TypeOf(self), comp) IN
    IF ds = {}
    THEN [ret |-> NoRef, mem |-> m]
    ELSE LET d == CHOOSE d \in ds : TRUE
         IN [ret |-> [obj |-> "copy", field |-> d.field], mem |-> m]

\* Variant: access returns the address of the container itself, that of its
\* first field, whatever the component.
Has_access_self(m, self, comp) ==
    [ret |-> FieldAddr(self, CHOOSE f \in FieldsOf(self) : TRUE), mem |-> m]

\* Variant: the field is looked up by its type, not by the declaration: of
\* several fields of the component type another than the designated one is
\* returned.
Has_access_by_type(m, self, comp) ==
    LET ds == ImplsFor(TypeOf(self), comp) IN
    IF ds = {}
    THEN [ret |-> NoRef, mem |-> m]
    ELSE LET d == CHOOSE d \in ds : TRUE
             others == {f \in FieldsOf(self) :
                          Struct(TypeOf(self))[f] = comp /\ f # d.field}
         IN [ret |-> FieldAddr(self, IF others = {} THEN d.field
                                     ELSE CHOOSE f \in others : TRUE),
             mem |-> m]

\* Has::access(&self) -> &Component, dispatched on (type of self, Component).
\* A pair without impl has no method to run: the result is NoRef.
Has_access(m, self, comp) ==
    LET ds == ImplsFor(TypeOf(self), comp) IN
    IF ds = {}
    THEN [ret |-> NoRef, mem |-> m]
    ELSE LET d == CHOOSE d \in ds : TRUE
         IN [ret |-> FieldAddr(self, d.field), mem |-> m]

\* Variant: the Component parameter is not passed on.
access_from_host(m, container, comp) == Has_access(m, container, "Host")

\* pub fn access_from<Component, Container>(container: &Container) -> &Component
access_from(m, container, comp) == Has_access(m, container, comp)

\* Variant: the Accessor carries a field of its own.
Accessor_with_cache(comp) == [phantom |-> comp, cache |-> NoRef]

\* pub struct Accessor<Component>(PhantomData<Component>): no runtime field,
\* the component type is its type parameter
Accessor(comp) == [phantom |-> comp]

\* pub fn access<Component>() -> Accessor<Component>
access(comp) == Accessor(comp)

\* Variant: from writes to the component it returns.
Accessor_from_touch(self, m, container) ==
    LET r == Has_access(m, container, self.phantom) IN
    IF r.ret \notin DOMAIN m
    THEN r
    ELSE [ret |-> r.ret,
          mem |-> [m EXCEPT ![r.ret] =
                      CHOOSE v \in Vals(TypeAt(r.ret)) : v # m[r.ret]]]

\* Accessor::from(&self, container: &'c Container) -> &'c Component
Accessor_from(self, m, container) == Has_access(m, container, self.phantom)

\* Variant: the reference reads the value the field had at construction.
Deref_snapshot(m, r) == InitOf(r.obj)[r.field]

\* *r for a reference r
Deref(m, r) == m[r]

(***************************************************************************)
(* State                                                                   *)
(*   mem     the value stored at each field address                        *)
(*   calls   per thread, the accessor call it is in or whose result it     *)
(*           holds: the form, the container, the component type, the       *)
(*           returned reference, the value read through it, and the        *)
(*           container's fields as they were when the call was made        *)
(*   proxy   per thread, the Accessor it has built and kept                *)
(*   writes  the number of field assignments made so far                   *)
(***************************************************************************)
NoProxy == [phantom |-> "none"]

IdleFrame ==
    [pc |-> "idle", form |-> "none", obj |-> "none", comp |-> "none",
     ret |-> NoRef, val |-> "none", pre |-> <<>>]

\* the fields of a container value
ObjState(m, obj) == [f \in FieldsOf(obj) |-> m[FieldAddr(obj, f)]]

\* a shared borrow of the container is alive: a call on it is running or its
\* result is still held
Borrowed(obj) == \E t \in Threads : calls[t].pc # "idle" /\ calls[t].obj = obj

Init ==
    /\ mem = [a \in Addr |-> InitOf(a.obj)[a.field]]
    /\ calls = [t \in Threads |-> IdleFrame]
    /\ proxy = [t \in Threads |-> NoProxy]
    /\ writes = 0

Enter(t, form, obj, comp) ==
    calls' = [calls EXCEPT ![t] =
                [pc |-> "called", form |-> form, obj |-> obj, comp |-> comp,
                 ret |-> NoRef, val |-> "none", pre |-> ObjState(mem, obj)]]

\* the call has returned r: the thread keeps the reference and reads through it
Leave(t, r) ==
    /\ mem' = r.mem
    /\ calls' = [calls EXCEPT ![t].pc = "holding",
                              ![t].ret = r.ret,
                              ![t].val = IF r.ret \in DOMAIN r.mem
                                         THEN Deref(r.mem, r.ret) ELSE "none"]

\* A thread that keeps an Accessor makes its calls through it, as run_with
\* does with the one it builds; the other two forms are called without one.

\* let host: &Host = env.access();
CallMethod(t, obj, comp) ==
    /\ calls[t].pc = "idle"
    /\ proxy[t] = NoProxy
    /\ HasBound(TypeOf(obj), comp)
    /\ Enter(t, "method", obj, comp)
    /\ UNCHANGED <<mem, proxy, writes>>

\* let port = access_from::<Port, _>(&env);
CallAccessFrom(t, obj, comp) ==
    /\ calls[t].pc = "idle"
    /\ proxy[t] = NoProxy
    /\ HasBound(TypeOf(obj), comp)
    /\ Enter(t, "free", obj, comp)
    /\ UNCHANGED <<mem, proxy, writes>>

\* access::<Verbosity>()
MakeProxy(t, comp) ==
    /\ calls[t].pc = "idle"
    /\ proxy[t] = NoProxy
    /\ proxy' = [proxy EXCEPT ![t] = access(comp)]
    /\ UNCHANGED <<mem, calls, writes>>

\* the Accessor goes out of scope
DropProxy(t) ==
    /\ calls[t].pc = "idle"
    /\ proxy[t] # NoProxy
    /\ proxy' = [proxy EXCEPT ![t] = NoProxy]
    /\ UNCHANGED <<mem, calls, writes>>

\* .from(&env) on an Accessor
CallFrom(t, obj) ==
    /\ calls[t].pc = "idle"
    /\ proxy[t] # NoProxy
    /\ HasBound(TypeOf(obj), proxy[t].phantom)
    /\ Enter(t, "proxy", obj, proxy[t].phantom)
    /\ UNCHANGED <<mem, proxy, writes>>

\* Variant: the method waits until no other thread is in a call on the
\* container.
RetMethod_exclusive(t) ==
    /\ calls[t].pc = "called"
    /\ calls[t].form = "method"
    /\ \A u \in Threads \ {t} :
          ~(calls[u].pc # "idle" /\ calls[u].obj = calls[t].obj)
    /\ Leave(t, Has_access(mem, calls[t].obj, calls[t].comp))
    /\ UNCHANGED <<proxy, writes>>

\* the body of the impl's access runs and returns
RetMethod(t) ==
    /\ calls[t].pc = "called"
    /\ calls[t].form = "method"
    /\ Leave(t, Has_access(mem, calls[t].obj, calls[t].comp))
    /\ UNCHANGED <<proxy, writes>>

\* the body of access_from runs and returns
RetAccessFrom(t) ==
    /\ calls[t].pc = "called"
    /\ calls[t].form = "free"
    /\ Leave(t, access_from(mem, calls[t].obj, calls[t].comp))
    /\ UNCHANGED <<proxy, writes>>

\* the body of Accessor::from runs and returns
RetFrom(t) ==
    /\ calls[t].pc = "called"
    /\ calls[t].form = "proxy"
    /\ Leave(t, Accessor_from(proxy[t], mem, calls[t].obj))
    /\ UNCHANGED <<proxy, writes>>

\* the returned reference goes out of scope
Release(t) ==
    /\ calls[t].pc = "holding"
    /\ calls' = [calls EXCEPT ![t] = IdleFrame]
    /\ UNCHANGED <<mem, proxy, writes>>

\* the owner assigns to a field; the borrow rules allow it only while no
\* shared borrow of the container is alive
Update(obj, field, v) ==
    /\ writes < MaxWrites
    /\ ~Borrowed(obj)
    /\ v # mem[FieldAddr(obj, field)]
    /\ mem' = [mem EXCEPT ![FieldAddr(obj, field)] = v]
    /\ writes' = writes + 1
    /\ UNCHANGED <<calls, proxy>>

Next ==
    \/ \E t \in Threads, obj \in Instances, comp \in ComponentTypes :
          CallMethod(t, obj, comp)
    \/ \E t \in Threads, obj \in Instances, comp \in ComponentTypes :
          CallAccessFrom(t, obj, comp)
    \/ \E t \in Threads, comp \in ComponentTypes : MakeProxy(t, comp)
    \/ \E t \in Threads : DropProxy(t)
    \/ \E t \in Threads, obj \in Instances : CallFrom(t, obj)
    \/ \E t \in Threads : RetMethod(t)
    \/ \E t \in Threads : RetAccessFrom(t)
    \/ \E t \in Threads : RetFrom(t)
    \/ \E t \in Threads : Release(t)
    \/ \E obj \in Instances : \E field \in FieldsOf(obj) :
          \E v \in Vals(Struct(TypeOf(obj))[field]) : Update(obj, field, v)

Spec == Init /\ [][Next]_vars

(***************************************************************************)
(* Properties                                                              *)
(***************************************************************************)
\* The capability relation the client programs declare, as the triples
\* (container type, component type, designated field) of their impl blocks and
\* macro invocations.
Declarations ==
    { <<"Env", "Host", "host">>,
      <<"Env", "Port", "port">>,
      <<"Env", "Verbosity", "verbosity">>,
      <<"Config", "Host", "host">>,
      <<"Config", "Port", "port">>,
      <<"Link", "Port", "local">> }

IsDeclared(ct, comp) == \E d \in Declarations : d[1] = ct /\ d[2] = comp

DesignatedField(ct, comp) ==
    (CHOOSE d \in Declarations : d[1] = ct /\ d[2] = comp)[3]

\* the address of the field the declaration for (type of obj, comp) designates
Designated(obj, comp) == FieldAddr(obj, DesignatedField(TypeOf(obj), comp))

Holding(t) == calls[t].pc = "holding"

InCall(t) == calls[t].pc # "idle"

\* C1: Has::access on a container value returns the address of the very field
\* the declaration designates: a reference into the container, not a copy.
C1_AccessReturnsDesignatedField ==
    \A t \in Threads :
        (Holding(t) /\ calls[t].form = "method") =>
            /\ IsDeclared(TypeOf(calls[t].obj), calls[t].comp)
            /\ calls[t].ret.obj = calls[t].obj
            /\ calls[t].ret \in Addr
            /\ calls[t].ret = Designated(calls[t].obj, calls[t].comp)

C1_Witness ==
    \E t \in Threads :
        /\ Holding(t) /\ calls[t].form = "method"
        /\ calls[t].obj = "env" /\ calls[t].comp = "Host"
        /\ calls[t].ret = FieldAddr("env", "host")

\* C2: for the same container and component type the method form, the
\* free-function form and the proxy form return the same address.
C2_FormsEquivalent ==
    /\ \A t \in Threads :
          Holding(t) =>
             /\ calls[t].ret = Has_access(mem, calls[t].obj, calls[t].comp).ret
             /\ calls[t].ret = access_from(mem, calls[t].obj, calls[t].comp).ret
             /\ calls[t].ret =
                   Accessor_from(access(calls[t].comp), mem, calls[t].obj).ret
    /\ \A t1, t2 \in Threads :
          (/\ Holding(t1) /\ Holding(t2)
           /\ calls[t1].obj = calls[t2].obj
           /\ calls[t1].comp = calls[t2].comp) => calls[t1].ret = calls[t2].ret

C2_Witness ==
    \E t1, t2 \in Threads :
        /\ Holding(t1) /\ Holding(t2)
        /\ calls[t1].form = "free" /\ calls[t2].form = "proxy"
        /\ calls[t1].obj = "env" /\ calls[t2].obj = "env"
        /\ calls[t1].comp = "Verbosity" /\ calls[t2].comp = "Verbosity"
        /\ calls[t1].ret = FieldAddr("env", "verbosity")

\* C3: the declaration the macro generates is the one a hand-written impl
\* gives: the generated block elaborates to the declaration of the hand-written
\* block for the same triple, and access through the macro's impl (Port of Env)
\* and through the hand-written impl (Port of Config) returns the same named
\* field, with the same value when the two containers store the same port.
C3_MacroEqualsHandWritten ==
    /\ Elaborate(impl_has_for_named_component("Env", "Host", "host"))
          = Elaborate(EnvHasHost)
    /\ Elaborate(impl_has_for_named_component("Config", "Host", "host"))
          = Elaborate(ConfigHasHost)
    /\ Elaborate(impl_has_for_named_component("Config", "Port", "port"))
          = Elaborate(ConfigHasPort)
    /\ \A t1, t2 \in Threads :
          (/\ Holding(t1) /\ Holding(t2)
           /\ calls[t1].obj = "env" /\ calls[t2].obj = "cfg"
           /\ calls[t1].comp = "Port" /\ calls[t2].comp = "Port") =>
              /\ calls[t1].ret.field = "port"
              /\ calls[t2].ret.field = "port"
              /\ (mem[FieldAddr("env", "port")] = mem[FieldAddr("cfg", "port")]
                    => calls[t1].val = calls[t2].val)

C3_Witness ==
    \E t1, t2 \in Threads :
        /\ Holding(t1) /\ Holding(t2)
        /\ calls[t1].obj = "env" /\ calls[t2].obj = "cfg"
        /\ calls[t1].comp = "Port" /\ calls[t2].comp = "Port"
        /\ mem[FieldAddr("env", "port")] = mem[FieldAddr("cfg", "port")]
        /\ calls[t1].val = 8080 /\ calls[t2].val = 8080

\* C4: what is read through the returned reference is the current value of
\* the designated field.  For env built by main: "localhost" for Host and 8080
\* for Port before any assignment, and 9090 for Port once port holds 9090.
C4_AccessIsLive ==
    \A t \in Threads :
        Holding(t) =>
            /\ calls[t].ret = Designated(calls[t].obj, calls[t].comp)
            /\ calls[t].val = mem[Designated(calls[t].obj, calls[t].comp)]
            /\ (calls[t].obj = "env" /\ calls[t].comp = "Host" /\ writes = 0)
                  => calls[t].val = "localhost"
            /\ (calls[t].obj = "env" /\ calls[t].comp = "Port" /\ writes = 0)
                  => calls[t].val = 8080
            /\ (/\ calls[t].obj = "env" /\ calls[t].comp = "Port"
                /\ mem[FieldAddr("env", "port")] = 9090)
                  => calls[t].val = 9090

C4_Witness ==
    \E t \in Threads :
        /\ Holding(t)
        /\ calls[t].obj = "env" /\ calls[t].comp = "Port"
        /\ writes > 0
        /\ mem[FieldAddr("env", "port")] = 9090
        /\ calls[t].val = 9090

\* C5: two references obtained from the same container value for two distinct
\* declared component types are different addresses.
C5_DistinctComponentsDoNotAlias ==
    \A t1, t2 \in Threads :
        (/\ Holding(t1) /\ Holding(t2)
         /\ calls[t1].obj = calls[t2].obj
         /\ calls[t1].comp # calls[t2].comp) =>
            /\ calls[t1].ret # calls[t2].ret
            /\ calls[t1].ret \in Addr
            /\ calls[t2].ret \in Addr

C5_Witness ==
    \E t1, t2 \in Threads :
        /\ Holding(t1) /\ Holding(t2)
        /\ calls[t1].obj = "env" /\ calls[t2].obj = "env"
        /\ calls[t1].comp = "Host" /\ calls[t2].comp = "Port"
        /\ calls[t1].ret = FieldAddr("env", "host")
        /\ calls[t2].ret = FieldAddr("env", "port")

\* C6: an access of any form leaves the container as it was when the call was
\* made, every field of it, the fields without a declaration included.
C6_AccessHasNoSideEffect ==
    \A t \in Threads :
        Holding(t) => ObjState(mem, calls[t].obj) = calls[t].pre

C6_Witness ==
    \E t \in Threads :
        /\ Holding(t)
        /\ calls[t].form = "proxy"
        /\ calls[t].obj = "env"
        /\ writes > 0
        /\ calls[t].pre = ObjState(mem, "env")
        /\ calls[t].pre.restriction = "Permissive"

\* C7: a call is only ever made on a declared (container type, component type)
\* pair, it can return at once, and what it returns is a reference to a
\* component of the requested type, never an error value.
C7_NoRuntimeErrorPath ==
    \A t \in Threads :
        /\ InCall(t) => IsDeclared(TypeOf(calls[t].obj), calls[t].comp)
        /\ calls[t].pc = "called" =>
              ENABLED (RetMethod(t) \/ RetAccessFrom(t) \/ RetFrom(t))
        /\ Holding(t) =>
              /\ calls[t].ret # NoRef
              /\ calls[t].ret \in Addr
              /\ TypeAt(calls[t].ret) = calls[t].comp

C7_Witness ==
    \E t1, t2 \in Threads :
        /\ Holding(t1)
        /\ calls[t1].obj = "cfg" /\ calls[t1].comp = "Host"
        /\ calls[t1].ret = FieldAddr("cfg", "host")
        /\ proxy[t2] = access("Restriction")
        /\ ~ ENABLED CallFrom(t2, "env")

\* the fields of obj that store the component type comp
FieldsOfType(obj, comp) == {f \in FieldsOf(obj) : Struct(TypeOf(obj))[f] = comp}

\* C8: a container type has at most one impl per component type, and when a
\* container stores a component type in several fields every access for that
\* type, by any form and after any assignment, returns the one designated
\* field and never another field of that type.
C8_OneDesignatedFieldPerType ==
    /\ \A ct \in ContainerTypes, comp \in ComponentTypes :
          Cardinality(ImplsFor(ct, comp)) <= 1
    /\ \A t \in Threads :
          Holding(t) =>
             \A f \in FieldsOfType(calls[t].obj, calls[t].comp) :
                 (calls[t].ret = FieldAddr(calls[t].obj, f))
                    <=> (f = DesignatedField(TypeOf(calls[t].obj), calls[t].comp))

C8_Witness ==
    \E t1, t2 \in Threads :
        /\ Holding(t1) /\ Holding(t2)
        /\ calls[t1].obj = "link" /\ calls[t2].obj = "link"
        /\ calls[t1].form = "method" /\ calls[t2].form = "proxy"
        /\ Cardinality(FieldsOfType("link", "Port")) = 2
        /\ calls[t1].ret = FieldAddr("link", "local")
        /\ calls[t2].ret = FieldAddr("link", "local")
        /\ writes > 0

\* C9: while several threads are in accessor calls on the same container, none
\* of them waits for another, each gets the reference it gets when alone, and
\* the container stays as each of them found it.
C9_ConcurrentReadersSafe ==
    \A t1, t2 \in Threads :
        (/\ t1 # t2
         /\ InCall(t1) /\ InCall(t2)
         /\ calls[t1].obj = calls[t2].obj) =>
            /\ calls[t1].pc = "called" =>
                  ENABLED (RetMethod(t1) \/ RetAccessFrom(t1) \/ RetFrom(t1))
            /\ Holding(t1) =>
                  calls[t1].ret = Designated(calls[t1].obj, calls[t1].comp)
            /\ calls[t1].pre = calls[t2].pre
            /\ ObjState(mem, calls[t1].obj) = calls[t1].pre

C9_Witness ==
    \E t1, t2 \in Threads :
        /\ t1 # t2
        /\ calls[t1].pc = "called" /\ Holding(t2)
        /\ calls[t1].obj = "cfg" /\ calls[t2].obj = "cfg"
        /\ calls[t1].comp = "Port" /\ calls[t2].comp = "Port"
        /\ calls[t2].ret = FieldAddr("cfg", "port")

\* C10: an Accessor holds nothing but its type parameter, and from returns
\* what Has::access returns for the container passed in: two threads using
\* their own Accessor of the same component type on the same container get
\* the same address, however often the Accessor was used before.
C10_ProxyStateless ==
    /\ \A t \in Threads : DOMAIN proxy[t] = {"phantom"}
    /\ \A t \in Threads :
          (Holding(t) /\ calls[t].form = "proxy") =>
             /\ proxy[t] = access(calls[t].comp)
             /\ calls[t].ret = Has_access(mem, calls[t].obj, calls[t].comp).ret
             /\ calls[t].ret.obj = calls[t].obj
    /\ \A t1, t2 \in Threads :
          (/\ Holding(t1) /\ Holding(t2)
           /\ calls[t1].form = "proxy" /\ calls[t2].form = "proxy"
           /\ calls[t1].obj = calls[t2].obj
           /\ proxy[t1] = proxy[t2]) => calls[t1].ret = calls[t2].ret

C10_Witness ==
    \E t1, t2 \in Threads :
        /\ t1 # t2
        /\ Holding(t1) /\ Holding(t2)
        /\ calls[t1].form = "proxy" /\ calls[t2].form = "proxy"
        /\ calls[t1].obj = "cfg" /\ calls[t2].obj = "cfg"
        /\ proxy[t1] = access("Host") /\ proxy[t2] = access("Host")
        /\ calls[t1].ret = FieldAddr("cfg", "host")
        /\ calls[t2].ret = FieldAddr("cfg", "host")

====
